---- MODULE Spec2Model ----
(***************************************************************************)
(* rowslc / colslc: two stream filters that select rows (lines) or columns *)
(* (whitespace-delimited fields) of a text stream by 1-based index filters.*)
(*                                                                         *)
(* The drivers (src/bin/rowslc/main.rs, src/bin/colslc/main.rs) are        *)
(* modelled from their code.  The library slices::filter (Filter,          *)
(* FilterSet) is not among the sources; it is modelled from its            *)
(* description (grammar of section 4.1, predicate of section 4.2).         *)
(*                                                                         *)
(* Text is a sequence of one-character strings.  A u32 is a pair           *)
(* <<hi, lo>> of two 16-bit limbs (its value is hi * 2^16 + lo), so that   *)
(* the counters keep their 32-bit width; a usize is <<top, hi, lo>> with   *)
(* top the bits above the low 32.                                          *)
(***************************************************************************)
EXTENDS Integers, Sequences, FiniteSets, TLC

\* ------------------------------------------------------------------ bounds
\* Longest input text, in characters.
MaxInputLen == 4
\* Most filter expressions on one command line.
MaxFilters == 2
\* Longest filter expression handed to Filter::from_str, in characters.
MaxExprLen == 3
\* Largest position queried when a single Filter is exercised.
MaxPos == 4
\* How many counter values on each side of the u32 limit are started from.
Near == 3
\* Most lines (or fields) still to come when started next to the u32 limit.
MaxFarItems == 3

\* ----------------------------------------------------------- u32 and usize
Limb == 256 * 256

Zero32 == <<0, 0>>

One32 == <<0, 1>>

U32Max == <<Limb - 1, Limb - 1>>

\* The u32 of a natural number below 2^31.
ToU32(n) == <<n \div Limb, n % Limb>>

Lt32(a, b) == a[1] < b[1] \/ (a[1] = b[1] /\ a[2] < b[2])

Le32(a, b) == a = b \/ Lt32(a, b)

\* a + b on u32: the wrapped sum and whether the true sum left the type.
Add32(a, b) ==
    LET lo == a[2] + b[2]
        hi == a[1] + b[1] + (lo \div Limb)
    IN  [value |-> <<hi % Limb, lo % Limb>>, overflow |-> hi >= Limb]

\* a - b on u32, for a >= b.
Sub32(a, b) ==
    LET borrow == IF a[2] < b[2] THEN 1 ELSE 0
    IN  <<a[1] - b[1] - borrow, a[2] + borrow * Limb - b[2]>>

\* `index as u32` of a usize: the low 32 bits, silently truncated.
AsU32(i) == <<i[2], i[3]>>

\* The usize of a natural number below 2^31.
ToUsize(n) == <<0, n \div Limb, n % Limb>>

\* The next index of Iterator::enumerate (a usize).
UsizeSucc(i) ==
    LET lo == i[3] + 1
        hi == i[2] + (lo \div Limb)
    IN  <<i[1] + (hi \div Limb), hi % Limb, lo % Limb>>

\* What an overflowing `+` does: panic (overflow checks on, the debug
\* profile) or wrap (overflow checks off, the release profile).
OverflowOutcomes == {"panic", "wrap"}

\* ------------------------------------------------------------------- text
Newline == "\n"

Space == " "

IsWhitespace(c) == c \in {Space, Newline}

\* All sequences over S of length at most n.
SeqsUpTo(S, n) == UNION {[1..k -> S] : k \in 0..n}

RECURSIVE Concat(_)
\* The concatenation of a sequence of texts.
Concat(ss) ==
    IF ss = <<>> THEN <<>> ELSE Head(ss) \o Concat(Tail(ss))

\* ------------------------------------------- slices::filter (from the spec)
None == <<>>

Digits == {"0", "1", "2", "3", "4", "5", "6", "7", "8", "9"}

DigitVal(c) ==
    CASE c = "0" -> 0 [] c = "1" -> 1 [] c = "2" -> 2 [] c = "3" -> 3
      [] c = "4" -> 4 [] c = "5" -> 5 [] c = "6" -> 6 [] c = "7" -> 7
      [] c = "8" -> 8 [] c = "9" -> 9

RECURSIVE DecimalValue(_)
DecimalValue(s) ==
    IF s = <<>> THEN 0
    ELSE 10 * DecimalValue(SubSeq(s, 1, Len(s) - 1)) + DigitVal(s[Len(s)])
\* ParsePositive that lets zero through.
ParsePositive_AllowZero(s) ==
    IF s # <<>> /\ (\A i \in 1..Len(s) : s[i] \in Digits)
    THEN [ok |-> TRUE, value |-> ToU32(DecimalValue(s))]
    ELSE [ok |-> FALSE, value |-> None]

\* A bound of the grammar: a positive integer >= 1.
ParsePositive(s) ==
    IF s # <<>> /\ (\A i \in 1..Len(s) : s[i] \in Digits) /\ DecimalValue(s) >= 1
    THEN [ok |-> TRUE, value |-> ToU32(DecimalValue(s))]
    ELSE [ok |-> FALSE, value |-> None]

ColonCount(s) == Cardinality({i \in 1..Len(s) : s[i] = ":"})

InvalidFilter(kind, s) == [ok |-> FALSE, kind |-> kind, token |-> s]

ValidFilter(lo, hi) == [ok |-> TRUE, filter |-> [lower |-> lo, upper |-> hi]]

\* Filter::from_str: "N", "N:M", "N:", ":M", ":"; anything else fails.
from_str(s) ==
    IF ColonCount(s) = 0
    THEN LET n == ParsePositive(s)
         IN  IF n.ok THEN ValidFilter(n.value, n.value)
             ELSE InvalidFilter("ParseError", s)
    ELSE IF ColonCount(s) = 1
    THEN LET c == CHOOSE i \in 1..Len(s) : s[i] = ":"
             left == SubSeq(s, 1, c - 1)
             right == SubSeq(s, c + 1, Len(s))
             lo == IF left = <<>> THEN [ok |-> TRUE, value |-> None]
                   ELSE ParsePositive(left)
             hi == IF right = <<>> THEN [ok |-> TRUE, value |-> None]
                   ELSE ParsePositive(right)
         IN  IF ~lo.ok \/ ~hi.ok THEN InvalidFilter("ParseError", s)
             ELSE IF lo.value # None /\ hi.value # None
                     /\ Lt32(hi.value, lo.value)
             THEN InvalidFilter("RangeError", s)
             ELSE ValidFilter(lo.value, hi.value)
    ELSE InvalidFilter("ParseError", s)
\* FilterMatches with the upper bound left out of the range.
FilterMatches_ExclusiveUpper(f, p) ==
    /\ (f.lower = None \/ Le32(f.lower, p))
    /\ (f.upper = None \/ Lt32(p, f.upper))

\* The range test of one Filter.
FilterMatches(f, p) ==
    /\ (f.lower = None \/ Le32(f.lower, p))
    /\ (f.upper = None \/ Le32(p, f.upper))

\* FilterSet::new: the filters in the order given, nothing merged.
FilterSetNew(fs) == fs

\* FilterSet::is_empty
is_empty(fs) == Len(fs) = 0

\* FilterSet::apply: some contained Filter matches the position.
apply(fs, p) == \E i \in 1..Len(fs) : FilterMatches(fs[i], p)

\* ------------------------------------------------------------ std helpers
\* BufRead::read_line: the text up to and including the next newline, or to
\* the end of input.
LineEnd(s) ==
    IF \E i \in 1..Len(s) : s[i] = Newline
    THEN CHOOSE i \in 1..Len(s) :
            s[i] = Newline /\ \A j \in 1..(i - 1) : s[j] # Newline
    ELSE Len(s)

read_line(s) == SubSeq(s, 1, LineEnd(s))

AfterLine(s) == SubSeq(s, LineEnd(s) + 1, Len(s))

RECURSIVE split_whitespace(_)
\* str::split_whitespace: the maximal runs of non-whitespace, in order.
split_whitespace(s) ==
    IF s = <<>> THEN <<>>
    ELSE IF IsWhitespace(Head(s)) THEN split_whitespace(Tail(s))
    ELSE LET stop == IF \E i \in 1..Len(s) : IsWhitespace(s[i])
                     THEN (CHOOSE i \in 1..Len(s) :
                              IsWhitespace(s[i])
                              /\ \A j \in 1..(i - 1) : ~IsWhitespace(s[j])) - 1
                     ELSE Len(s)
         IN  <<SubSeq(s, 1, stop)>> \o split_whitespace(SubSeq(s, stop + 1, Len(s)))

RECURSIVE join(_, _)
\* [&str]::join
join(cols, sep) ==
    IF cols = <<>> THEN <<>>
    ELSE IF Len(cols) = 1 THEN cols[1]
    ELSE cols[1] \o sep \o join(Tail(cols), sep)

\* ------------------------------------------------------------------ state
VARIABLES
    tool,        \* "row" (rowslc) or "col" (colslc)
    args,        \* the filter expressions of the command line, in order
    input,       \* the whole text of the input stream
    pc,          \* where the run is
    filters,     \* opts.filters, then the slicer's FilterSet
    opened,      \* the input reader exists
    rest,        \* the input text not read yet
    index,       \* RowSlicer::slice's line counter (u32)
    enumIndex,   \* the enumerate index of the field in hand (usize)
    out,         \* the text the writer has accepted
    queried,     \* the positions passed to FilterSet::apply, in call order
    flushed,     \* slice's writer.flush() returned Ok
    dropFlushed, \* run's BufWriter was dropped, which flushes what it holds
    err,         \* what failed, or "none"
    expr,        \* one expression handed to Filter::from_str
    pos,         \* one position a parsed Filter is tested at
    parsed,      \* the result of Filter::from_str(expr)
    matched,     \* whether the parsed Filter matched pos
    fpc          \* where the exercise of a single Filter is

dvars == <<tool, args, input, pc, filters, opened, rest, index, enumIndex,
           out, queried, flushed, dropFlushed, err>>

fvars == <<expr, pos, parsed, matched, fpc>>

vars == <<dvars, fvars>>

\* The characters input text is made of.
Chars == {"a", Space, Newline}

\* The filter expressions the command line is made of: an exact index, an
\* open range, the full range, a closed range, and an inverted range.
DriverExprs ==
    { <<"1">>, <<"2", ":">>, <<":">>, <<"2", ":", "3">>, <<"3", ":", "2">> }

\* The characters a single filter expression is made of.
ExprChars == {"0", "1", "2", "3", ":", "-", "a"}

FilePaths == {"none", "-", "file"}
\* ParseArgs that drops the expressions that fail and goes on with the rest.
ParseArgs_SkipInvalid(a) ==
    LET ok == SelectSeq(a, LAMBDA e : from_str(e).ok)
    IN  [ok |-> TRUE, filters |-> [i \in 1..Len(ok) |-> from_str(ok[i]).filter]]

\* ---------------------------------------------------------------- drivers
\* Opts::parse on `filters: Vec<Filter>`: every expression goes through
\* Filter::from_str; the first that fails ends the process with a usage error.
ParseArgs(a) ==
    LET rs == [i \in 1..Len(a) |-> from_str(a[i])]
    IN  IF \A i \in 1..Len(a) : rs[i].ok
        THEN [ok |-> TRUE, filters |-> [i \in 1..Len(a) |-> rs[i].filter]]
        ELSE [ok |-> FALSE, filters |-> <<>>]
\* RowPosition with the `1 +` forgotten: lines counted from 0.
RowPosition_ZeroBased(idx) == Add32(Zero32, idx)

\* rowslc: `1 + index`, the position the line in hand is queried at.
RowPosition(idx) == Add32(One32, idx)
\* ColPosition with the `1 +` forgotten: fields counted from 0.
ColPosition_ZeroBased(i) == Add32(Zero32, AsU32(i))

\* colslc: `1 + index as u32`, the position the field in hand is queried at.
ColPosition(i) == Add32(One32, AsU32(i))

\* rowslc: `self.filters.is_empty() || self.filters.apply(1 + index)`.
\* The record says whether apply was called, whether the `+` overflowed,
\* and whether the line is written.
RowSelected(fs, idx) ==
    IF is_empty(fs)
    THEN [asked |-> <<>>, overflow |-> FALSE, selected |-> TRUE]
    ELSE [asked |-> <<RowPosition(idx).value>>,
          overflow |-> RowPosition(idx).overflow,
          selected |-> apply(fs, RowPosition(idx).value)]
RECURSIVE Repeat(_, _)
Repeat(text, n) == IF n = 0 THEN <<>> ELSE text \o Repeat(text, n - 1)

\* RowStep that tests the filters one by one and writes the line once for
\* every Filter that matches.
RowStep_PerFilter(fs, idx, buf, outcome, k) ==
    LET p == Add32(One32, idx).value
        n == IF is_empty(fs) THEN 1
             ELSE Cardinality({i \in 1..Len(fs) : apply(<<fs[i]>>, p)})
    IN  [pc |-> "slice", wrote |-> Repeat(buf, n),
         index |-> Add32(idx, One32).value,
         asked |-> IF is_empty(fs) THEN <<>> ELSE <<p>>, err |-> "none"]

\* One iteration of RowSlicer::slice's loop on the line buf, with the
\* counter at idx; k is how many characters the writer accepts (all of them
\* unless the write fails), outcome is what an overflowing `+` does.
RowStep(fs, idx, buf, outcome, k) ==
    LET sel == RowSelected(fs, idx)
        inc == Add32(idx, One32)
    IN  IF sel.overflow /\ outcome = "panic"
        THEN [pc |-> "panicked", wrote |-> <<>>, index |-> idx,
              asked |-> <<>>, err |-> "overflow"]
        ELSE IF sel.selected /\ k < Len(buf)
        THEN [pc |-> "ret_err", wrote |-> SubSeq(buf, 1, k), index |-> idx,
              asked |-> sel.asked, err |-> "write"]
        ELSE IF inc.overflow /\ outcome = "panic"
        THEN [pc |-> "panicked",
              wrote |-> IF sel.selected THEN buf ELSE <<>>,
              index |-> idx, asked |-> sel.asked, err |-> "overflow"]
        ELSE [pc |-> "slice",
              wrote |-> IF sel.selected THEN buf ELSE <<>>,
              index |-> inc.value, asked |-> sel.asked, err |-> "none"]

RECURSIVE ColColumns(_, _, _)
\* colslc: split_whitespace().enumerate().filter(apply(1 + index as u32))
\* .map(col).collect() on the fields from enumerate index i on.
ColColumns(fs, fields, i) ==
    IF fields = <<>>
    THEN [cols |-> <<>>, asked |-> <<>>, overflow |-> FALSE]
    ELSE LET p == ColPosition(i)
             more == ColColumns(fs, Tail(fields), UsizeSucc(i))
         IN  [cols |-> (IF apply(fs, p.value) THEN <<Head(fields)>> ELSE <<>>)
                        \o more.cols,
              asked |-> <<p.value>> \o more.asked,
              overflow |-> p.overflow \/ more.overflow]

\* ColLine without the is_empty branch: every line is split and rejoined.
ColLine_AlwaysSplit(fs, buf) ==
    join(ColColumns(fs, split_whitespace(buf), ToUsize(0)).cols, <<Space>>)
    \o <<Newline>>

\* ColLine that writes the line as read whatever the filters.
ColLine_Verbatim(fs, buf) == buf

\* colslc: what one iteration hands to the writer for the line buf.
ColLine(fs, buf) ==
    IF is_empty(fs) THEN buf
    ELSE join(ColColumns(fs, split_whitespace(buf), ToUsize(0)).cols, <<Space>>)
         \o <<Newline>>

\* One iteration of ColSlicer::slice's loop on the line buf.
ColStep(fs, buf, outcome, k) ==
    LET cc == IF is_empty(fs)
              THEN [cols |-> <<>>, asked |-> <<>>, overflow |-> FALSE]
              ELSE ColColumns(fs, split_whitespace(buf), ToUsize(0))
        data == ColLine(fs, buf)
    IN  IF cc.overflow /\ outcome = "panic"
        THEN [pc |-> "panicked", wrote |-> <<>>, asked |-> <<>>,
              err |-> "overflow"]
        ELSE IF k < Len(data)
        THEN [pc |-> "ret_err", wrote |-> SubSeq(data, 1, k),
              asked |-> cc.asked, err |-> "write"]
        ELSE [pc |-> "slice", wrote |-> data, asked |-> cc.asked,
              err |-> "none"]

RECURSIVE RowSliceFrom(_, _, _)
\* RowSlicer::slice run to the end on text, no read or write failing: what
\* the writer holds.
RowSliceFrom(fs, idx, text) ==
    IF text = <<>> THEN <<>>
    ELSE LET buf == read_line(text)
             st == RowStep(fs, idx, buf, "wrap", Len(buf))
         IN  st.wrote \o RowSliceFrom(fs, st.index, AfterLine(text))

RECURSIVE ColSliceFrom(_, _)
\* ColSlicer::slice run to the end on text, no read or write failing.
ColSliceFrom(fs, text) ==
    IF text = <<>> THEN <<>>
    ELSE ColLine(fs, read_line(text)) \o ColSliceFrom(fs, AfterLine(text))

\* Either slicer run to the end.
SliceResult(t, fs, text) ==
    IF t = "row" THEN RowSliceFrom(fs, Zero32, text) ELSE ColSliceFrom(fs, text)

\* ------------------------------------------------------------- the run
\* The variables of the exercise of a single Filter, at rest.
FilterIdle ==
    /\ expr = <<>>
    /\ pos = One32
    /\ parsed = InvalidFilter("none", <<>>)
    /\ matched = FALSE
    /\ fpc = "idle"

\* The process as started: the command line is given, nothing is parsed.
Init ==
    /\ tool \in {"row", "col"}
    /\ args \in SeqsUpTo(DriverExprs, MaxFilters)
    /\ input \in SeqsUpTo(Chars, MaxInputLen)
    /\ pc = "parse"
    /\ filters = <<>>
    /\ opened = FALSE
    /\ rest = input
    /\ index = Zero32
    /\ enumIndex = ToUsize(0)
    /\ out = <<>>
    /\ queried = <<>>
    /\ flushed = FALSE
    /\ dropFlushed = FALSE
    /\ err = "none"
    /\ FilterIdle

\* run: `let opts: Opts = Opts::parse();`
ParseOpts ==
    /\ pc = "parse"
    /\ filters' = ParseArgs(args).filters
    /\ pc' = IF ParseArgs(args).ok THEN "open" ELSE "exit_usage"
    /\ err' = IF ParseArgs(args).ok THEN "none" ELSE "filter"
    /\ UNCHANGED <<tool, args, input, opened, rest, index, enumIndex, out,
                   queried, flushed, dropFlushed, fvars>>

\* run: the reader (standard input, or the file, whose open may fail), the
\* writer, the slicer with FilterSet::new(opts.filters), and slice's locals.
OpenInput ==
    /\ pc = "open"
    /\ \E fp \in FilePaths, ok \in BOOLEAN :
          /\ opened' = (fp # "file" \/ ok)
          /\ pc' = IF opened' THEN "slice" ELSE "exit_err"
          /\ err' = IF opened' THEN "none" ELSE "open"
    /\ filters' = FilterSetNew(filters)
    /\ index' = Zero32
    /\ UNCHANGED <<tool, args, input, rest, enumIndex, out, queried, flushed,
                   dropFlushed, fvars>>

\* RowSlicer::slice: read_line returned Ok(n), n > 0.
RowIteration ==
    /\ pc = "slice"
    /\ tool = "row"
    /\ rest # <<>>
    /\ \E outcome \in OverflowOutcomes, k \in 0..Len(read_line(rest)) :
          LET st == RowStep(filters, index, read_line(rest), outcome, k)
          IN  /\ pc' = st.pc
              /\ out' = out \o st.wrote
              /\ index' = st.index
              /\ queried' = queried \o st.asked
              /\ err' = st.err
    /\ rest' = AfterLine(rest)
    /\ UNCHANGED <<tool, args, input, filters, opened, enumIndex, flushed,
                   dropFlushed, fvars>>

\* ColSlicer::slice: read_line returned Ok(n), n > 0.
ColIteration ==
    /\ pc = "slice"
    /\ tool = "col"
    /\ rest # <<>>
    /\ \E outcome \in OverflowOutcomes,
          k \in 0..Len(ColLine(filters, read_line(rest))) :
          LET st == ColStep(filters, read_line(rest), outcome, k)
          IN  /\ pc' = st.pc
              /\ out' = out \o st.wrote
              /\ queried' = st.asked
              /\ err' = st.err
    /\ rest' = AfterLine(rest)
    /\ UNCHANGED <<tool, args, input, filters, opened, index, enumIndex,
                   flushed, dropFlushed, fvars>>
\* ReadEof that returns Ok(()) at the end of input without the flush.
ReadEof_SkipFlush ==
    /\ pc = "slice"
    /\ rest = <<>>
    /\ pc' = "ret_ok"
    /\ UNCHANGED <<tool, args, input, filters, opened, rest, index, enumIndex,
                   out, queried, flushed, dropFlushed, err, fvars>>

\* slice: read_line returned Ok(0), the loop breaks.
ReadEof ==
    /\ pc = "slice"
    /\ rest = <<>>
    /\ pc' = "flush"
    /\ UNCHANGED <<tool, args, input, filters, opened, rest, index, enumIndex,
                   out, queried, flushed, dropFlushed, err, fvars>>

\* slice: read_line returned Err, `return Err(err.into())`.
ReadErr ==
    /\ pc = "slice"
    /\ pc' = "ret_err"
    /\ err' = "read"
    /\ UNCHANGED <<tool, args, input, filters, opened, rest, index, enumIndex,
                   out, queried, flushed, dropFlushed, fvars>>

\* slice: `writer.flush()?; Ok(())`.
Flush ==
    /\ pc = "flush"
    /\ \E ok \in BOOLEAN :
          /\ flushed' = ok
          /\ pc' = IF ok THEN "ret_ok" ELSE "ret_err"
          /\ err' = IF ok THEN "none" ELSE "flush"
    /\ UNCHANGED <<tool, args, input, filters, opened, rest, index, enumIndex,
                   out, queried, dropFlushed, fvars>>

\* run returns what slice returned; its BufWriter goes out of scope, and
\* main ends the process (status 1 after an error).
RunReturn ==
    /\ pc \in {"ret_ok", "ret_err"}
    /\ pc' = IF pc = "ret_ok" THEN "exit_ok" ELSE "exit_err"
    /\ dropFlushed' = TRUE
    /\ UNCHANGED <<tool, args, input, filters, opened, rest, index, enumIndex,
                   out, queried, flushed, err, fvars>>

Next ==
    \/ ParseOpts
    \/ OpenInput
    \/ RowIteration
    \/ ColIteration
    \/ ReadEof
    \/ ReadErr
    \/ Flush
    \/ RunReturn

Spec == Init /\ [][Next]_vars

Terminated == pc \in {"exit_ok", "exit_err", "exit_usage", "panicked"}

\* ------------------------------------------- a single Filter, exercised
\* The variables of the drivers, at rest.
DriverIdle ==
    /\ tool = "row"
    /\ args = <<>>
    /\ input = <<>>
    /\ pc = "idle"
    /\ filters = <<>>
    /\ opened = FALSE
    /\ rest = <<>>
    /\ index = Zero32
    /\ enumIndex = ToUsize(0)
    /\ out = <<>>
    /\ queried = <<>>
    /\ flushed = FALSE
    /\ dropFlushed = FALSE
    /\ err = "none"

\* The positions a Filter is tested at: the first few, and the largest.
Positions == {ToU32(n) : n \in 1..MaxPos} \cup {U32Max}

InitFilter ==
    /\ DriverIdle
    /\ expr \in SeqsUpTo(ExprChars, MaxExprLen)
    /\ pos \in Positions
    /\ parsed = InvalidFilter("none", <<>>)
    /\ matched = FALSE
    /\ fpc = "new"

\* Filter::from_str(expr)
FilterParse ==
    /\ fpc = "new"
    /\ parsed' = from_str(expr)
    /\ fpc' = IF parsed'.ok THEN "parsed" ELSE "failed"
    /\ UNCHANGED <<dvars, expr, pos, matched>>

\* FilterSet::new(vec![filter]).apply(pos)
FilterQuery ==
    /\ fpc = "parsed"
    /\ matched' = apply(FilterSetNew(<<parsed.filter>>), pos)
    /\ fpc' = "queried"
    /\ UNCHANGED <<dvars, expr, pos, parsed>>

NextFilter == FilterParse \/ FilterQuery

SpecFilter == InitFilter /\ [][NextFilter]_vars

\* --------------------------------------------- next to the counters' limit
\* The u32 values at most Near below the largest.
FarCounters == {Sub32(U32Max, ToU32(d)) : d \in 0..Near}

\* n items, each the one character c followed by the separator sep.
Items(c, sep, n) == [i \in 1..(2 * n) |-> IF i % 2 = 1 THEN c ELSE sep]

RECURSIVE AfterField(_)
\* What split_whitespace has left once it has yielded its next field.
AfterField(s) ==
    IF s = <<>> THEN <<>>
    ELSE IF IsWhitespace(Head(s)) THEN AfterField(Tail(s))
    ELSE IF \E i \in 1..Len(s) : IsWhitespace(s[i])
    THEN SubSeq(s, CHOOSE i \in 1..Len(s) :
                      IsWhitespace(s[i])
                      /\ \A j \in 1..(i - 1) : ~IsWhitespace(s[j]), Len(s))
    ELSE <<>>

\* The row slicer after `index` lines were read, or the column slicer in a
\* line after `enumIndex` fields were yielded, the count next to the u32
\* limit; out and queried hold what is written and asked from here on.
InitFar ==
    /\ tool \in {"row", "col"}
    /\ args \in SeqsUpTo(DriverExprs \ {<<"3", ":", "2">>}, 1)
    /\ filters = FilterSetNew(ParseArgs(args).filters)
    /\ pc = "slice"
    /\ opened = TRUE
    /\ \E c \in FarCounters, n \in 1..MaxFarItems :
          IF tool = "row"
          THEN /\ index = c
               /\ enumIndex = ToUsize(0)
               /\ rest = Items("a", Newline, n)
          ELSE /\ index = Zero32
               /\ enumIndex = <<0, c[1], c[2]>>
               /\ rest = Items("a", Space, n)
    /\ input = rest
    /\ out = <<>>
    /\ queried = <<>>
    /\ flushed = FALSE
    /\ dropFlushed = FALSE
    /\ err = "none"
    /\ FilterIdle

\* colslc: the closure `|&(index, _)| self.filters.apply(1 + index as u32)`
\* called on the next field that split_whitespace().enumerate() yields.
ColFilterCall ==
    /\ pc = "slice"
    /\ tool = "col"
    /\ ~is_empty(filters)
    /\ split_whitespace(rest) # <<>>
    /\ \E outcome \in OverflowOutcomes :
          IF ColPosition(enumIndex).overflow /\ outcome = "panic"
          THEN /\ pc' = "panicked"
               /\ err' = "overflow"
               /\ UNCHANGED <<queried, enumIndex>>
          ELSE /\ queried' = Append(queried, ColPosition(enumIndex).value)
               /\ enumIndex' = UsizeSucc(enumIndex)
               /\ UNCHANGED <<pc, err>>
    /\ rest' = AfterField(rest)
    /\ UNCHANGED <<tool, args, input, filters, opened, index, out, flushed,
                   dropFlushed, fvars>>

NextFar == RowIteration \/ ColFilterCall

SpecFar == InitFar /\ [][NextFar]_vars

\* ------------------------------------------------- what the claims speak of
RECURSIVE Lines(_)
\* The lines of a text, each with its terminator if it has one.
Lines(text) ==
    IF text = <<>> THEN <<>>
    ELSE <<read_line(text)>> \o Lines(AfterLine(text))

\* The input text read so far.
Consumed == SubSeq(input, 1, Len(input) - Len(rest))

\* The positions 1..n as u32.
FirstPositions(n) == [k \in 1..n |-> ToU32(k)]

\* The slicer runs with a FilterSet that holds at least one Filter.
Filtering(t) == tool = t /\ opened /\ ~is_empty(filters)

RECURSIVE KeepFrom(_, _, _)
\* The items whose 1-based index, from k on, is in the set I, in order.
KeepFrom(items, I, k) ==
    IF k > Len(items) THEN <<>>
    ELSE (IF k \in I THEN <<items[k]>> ELSE <<>>) \o KeepFrom(items, I, k + 1)

\* The 1-based indices up to n that the FilterSet selects.
Selected(fs, n) == {k \in 1..n : apply(fs, ToU32(k))}

\* Texts joined by one space.
JoinSpace(cols) ==
    Concat([i \in 1..Len(cols) |->
               IF i = 1 THEN cols[i] ELSE <<Space>> \o cols[i]])

\* The output line the column selector owes for an input line.
ExpectedColLine(fs, line) ==
    LET fields == split_whitespace(line)
    IN  JoinSpace(KeepFrom(fields, Selected(fs, Len(fields)), 1)) \o <<Newline>>

NewlineCount(s) == Cardinality({i \in 1..Len(s) : s[i] = Newline})

\* C1: row selector, non-empty FilterSet.  As long as no write has failed,
\* the output is the concatenation, in input order, of exactly the lines
\* read whose 1-based index k satisfies apply(k), each unmodified and once;
\* the counter equals the number of lines read, selected or not, and the
\* k-th line read was queried at position k.
C1_RowSelectsByIndex ==
    (Filtering("row") /\ err # "write") =>
        LET ls == Lines(Consumed)
        IN  /\ out = Concat(KeepFrom(ls, Selected(filters, Len(ls)), 1))
            /\ index = ToU32(Len(ls))
            /\ queried = FirstPositions(Len(ls))
            /\ (pc = "exit_ok" => Consumed = input)

\* A finished row selection that kept some lines and dropped others, the
\* last line without a terminator and kept as it is.
C1_Witness ==
    /\ pc = "exit_ok"
    /\ Filtering("row")
    /\ out # <<>>
    /\ out # input
    /\ input[Len(input)] # Newline
    /\ out[Len(out)] # Newline

\* C2: column selector, non-empty FilterSet.  As long as no write has
\* failed, the output holds one line per input line read: the fields whose
\* 1-based index (restarting on every line) satisfies apply, in order,
\* joined by one space and followed by a newline, also when no field is
\* selected and when the input line has no terminator.
C2_ColSelectsByIndex ==
    (Filtering("col") /\ err # "write") =>
        LET ls == Lines(Consumed)
        IN  /\ out = Concat([k \in 1..Len(ls) |-> ExpectedColLine(filters, ls[k])])
            /\ NewlineCount(out) = Len(ls)
            /\ (ls # <<>> =>
                   queried = FirstPositions(Len(split_whitespace(ls[Len(ls)]))))
            /\ (pc = "exit_ok" => Consumed = input)

\* A finished column selection of an input that has fields, none selected,
\* whose last line has no terminator: one empty line is written.
C2_Witness ==
    /\ pc = "exit_ok"
    /\ Filtering("col")
    /\ input # <<>>
    /\ input[Len(input)] # Newline
    /\ split_whitespace(input) # <<>>
    /\ out = <<Newline>>

\* A finished column selection that kept one field of several.
C2_WitnessKept ==
    /\ pc = "exit_ok"
    /\ Filtering("col")
    /\ Len(split_whitespace(input)) > 1
    /\ Len(split_whitespace(out)) = 1

\* C3: no filters supplied.  As long as no write has failed, the output of
\* either selector is the input read so far, unmodified, terminators
\* included; nothing is split or rejoined and apply is never called.
C3_NoFiltersIdentity ==
    (args = <<>> /\ opened /\ err # "write") =>
        /\ is_empty(filters)
        /\ out = Consumed
        /\ queried = <<>>
        /\ (pc = "exit_ok" => out = input)

\* A finished run of the column selector without filters on an input with
\* two adjacent spaces and no final terminator.
C3_Witness ==
    /\ pc = "exit_ok"
    /\ args = <<>>
    /\ tool = "col"
    /\ input # <<>>
    /\ input[Len(input)] # Newline
    /\ \E i \in 1..(Len(input) - 1) : input[i] = Space /\ input[i + 1] = Space

\* The Filters a FilterSet holds, as a set: no order, no multiplicity.
FilterRange(fs) == {fs[i] : i \in 1..Len(fs)}

\* The 1-based indices up to n that some Filter of the set F matches.
UnionSelected(F, n) == {k \in 1..n : \E f \in F : FilterMatches(f, ToU32(k))}

\* What each selector owes for the set F of Filters.
UnionOutput(t, F, text) ==
    LET ls == Lines(text)
    IN  IF t = "row" THEN Concat(KeepFrom(ls, UnionSelected(F, Len(ls)), 1))
        ELSE Concat([k \in 1..Len(ls) |->
                 LET fields == split_whitespace(ls[k])
                 IN  JoinSpace(KeepFrom(fields, UnionSelected(F, Len(fields)), 1))
                     \o <<Newline>>])

\* The orderings of a sequence.
Orderings(fs) ==
    {[i \in 1..Len(fs) |-> fs[f[i]]] : f \in Permutations(1..Len(fs))}

\* C4: union semantics.  The FilterSet matches a position iff one of its
\* Filters does; a finished run with a non-empty FilterSet has written what
\* the set of its Filters selects, each row or field once, which is also the
\* output under every other order of the filters and with any of them
\* supplied a second time.
C4_UnionOfFilters ==
    (pc = "exit_ok" /\ ~is_empty(filters)) =>
        /\ \A p \in Positions :
              apply(filters, p) <=> \E i \in 1..Len(filters) : apply(<<filters[i]>>, p)
        /\ out = UnionOutput(tool, FilterRange(filters), input)
        /\ \A gs \in Orderings(filters) : out = SliceResult(tool, gs, input)
        /\ \A i \in 1..Len(filters) :
              out = SliceResult(tool, Append(filters, filters[i]), input)

\* A finished row selection under two different filters that both match
\* the same line, which is written once while another line is dropped.
C4_Witness ==
    /\ pc = "exit_ok"
    /\ tool = "row"
    /\ Len(filters) = 2
    /\ filters[1] # filters[2]
    /\ \E k \in 1..Len(Lines(input)) :
          /\ FilterMatches(filters[1], ToU32(k))
          /\ FilterMatches(filters[2], ToU32(k))
          /\ out = Lines(input)[k]
    /\ Len(Lines(input)) > 1

\* Some expression of the command line fails to parse.
HasInvalid(a) == \E i \in 1..Len(a) : ~from_str(a[i]).ok

\* C7: fail-fast.  With an expression that fails to parse anywhere among
\* the filters, the run never opens the input, never reads a line, never
\* queries a position and never writes: it stops at the parse.
C7_FailFast ==
    HasInvalid(args) =>
        /\ pc \in {"parse", "exit_usage"}
        /\ ~opened
        /\ rest = input
        /\ queried = <<>>
        /\ out = <<>>
        /\ ~flushed

\* The run ended at the parse on an inverted range placed after a filter
\* that parses, with input waiting.
C7_Witness ==
    /\ pc = "exit_usage"
    /\ Len(args) = 2
    /\ from_str(args[1]).ok
    /\ args[2] = <<"3", ":", "2">>
    /\ input # <<>>

\* The same with the inverted range placed first.
C7_WitnessFirst ==
    /\ pc = "exit_usage"
    /\ Len(args) = 2
    /\ args[1] = <<"3", ":", "2">>
    /\ from_str(args[2]).ok
    /\ input # <<>>

\* C8 as stated: on every exit path of a run that had its input, error
\* paths included, the input is drained to the end and the writer flushed
\* (by slice, or by the drop of run's BufWriter).
C8_DrainedAndFlushedOnEveryExit ==
    (Terminated /\ opened) => (rest = <<>> /\ (flushed \/ dropFlushed))

\* C8, amended: a run that ends well has drained the input and slice has
\* flushed the writer; a run that ends on a failed read or write has
\* returned at once, slice's flush not reached, and the only flush is the
\* one the drop of run's BufWriter makes.
C8_DrainedAndFlushedOnSuccess ==
    /\ pc = "exit_ok" => (rest = <<>> /\ flushed /\ dropFlushed)
    /\ (pc = "exit_err" /\ err \in {"read", "write"}) => (~flushed /\ dropFlushed)

\* The run ended on a failed write with input still unread.
C8_Witness ==
    /\ pc = "exit_err"
    /\ err = "write"
    /\ rest # <<>>
    /\ ~flushed

\* C9 as stated: with the single filter ":" either selector writes what it
\* writes with no filters at all.
C9_FullRangeSameAsNoFilters ==
    (pc = "exit_ok" /\ args = <<<<":">>>>) => out = SliceResult(tool, <<>>, input)

\* Every line of the text is its fields joined by one space, terminated.
Normalised(text) ==
    \A k \in 1..Len(Lines(text)) :
        Lines(text)[k] = JoinSpace(split_whitespace(Lines(text)[k])) \o <<Newline>>

\* C9, amended: with the single filter ":" the row selector writes what it
\* writes with no filters, the input itself.  The column selector writes,
\* for every line, all its fields joined by one space and a newline, which
\* is what it writes with no filters only when the input already has that
\* form.
C9_FullRange ==
    (pc = "exit_ok" /\ args = <<<<":">>>>) =>
        IF tool = "row"
        THEN out = SliceResult("row", <<>>, input) /\ out = input
        ELSE /\ out = Concat([k \in 1..Len(Lines(input)) |->
                        JoinSpace(split_whitespace(Lines(input)[k])) \o <<Newline>>])
             /\ (out = SliceResult("col", <<>>, input) <=> Normalised(input))

\* A finished column selection under ":" whose output is not the input.
C9_Witness ==
    /\ pc = "exit_ok"
    /\ tool = "col"
    /\ args = <<<<":">>>>
    /\ out # input
    /\ split_whitespace(input) # <<>>

\* The parts of an expression with one colon, and what digits they hold.
ColonAt(e) == CHOOSE i \in 1..Len(e) : e[i] = ":"

LeftOf(e) == SubSeq(e, 1, ColonAt(e) - 1)

RightOf(e) == SubSeq(e, ColonAt(e) + 1, Len(e))

IsNumber(t) == t # <<>> /\ \A i \in 1..Len(t) : t[i] \in Digits

\* The bound a number states, as a u32.
Bound(t) == ToU32(DecimalValue(t))

\* The five shapes of the grammar.
IsExact(e) == ColonCount(e) = 0 /\ IsNumber(e)

IsClosed(e) == ColonCount(e) = 1 /\ IsNumber(LeftOf(e)) /\ IsNumber(RightOf(e))

IsLeftBounded(e) == ColonCount(e) = 1 /\ IsNumber(LeftOf(e)) /\ RightOf(e) = <<>>

IsRightBounded(e) == ColonCount(e) = 1 /\ LeftOf(e) = <<>> /\ IsNumber(RightOf(e))

IsFull(e) == e = <<":">>

\* C5: the five shapes.  The Filter from "N" matches p iff p = N, from
\* "N:M" iff N <= p <= M, from "N:" iff p >= N, from ":M" iff p <= M, and
\* from ":" always; every Filter built has one of the five shapes.
C5_ShapeSemantics ==
    fpc = "queried" =>
        /\ IsExact(expr) => (matched <=> pos = Bound(expr))
        /\ IsClosed(expr) =>
              (matched <=> Le32(Bound(LeftOf(expr)), pos)
                           /\ Le32(pos, Bound(RightOf(expr))))
        /\ IsLeftBounded(expr) => (matched <=> Le32(Bound(LeftOf(expr)), pos))
        /\ IsRightBounded(expr) => (matched <=> Le32(pos, Bound(RightOf(expr))))
        /\ IsFull(expr) => matched
        /\ \/ IsExact(expr)
           \/ IsClosed(expr)
           \/ IsLeftBounded(expr)
           \/ IsRightBounded(expr)
           \/ IsFull(expr)

\* The Filter from "2:3" was tested at its upper end and matched.
C5_Witness ==
    /\ fpc = "queried"
    /\ expr = <<"2", ":", "3">>
    /\ pos = ToU32(3)
    /\ matched

\* The Filter from "2:" was tested at the largest position and matched.
C5_WitnessOpen ==
    /\ fpc = "queried"
    /\ expr = <<"2", ":">>
    /\ pos = U32Max
    /\ matched

\* "N:M" with N > M, both bounds at least 1.
IsInverted(e) ==
    /\ IsClosed(e)
    /\ DecimalValue(LeftOf(e)) > DecimalValue(RightOf(e))
    /\ DecimalValue(RightOf(e)) >= 1

\* The empty string, a zero, a negative number, non-numeric text, more
\* than one colon.
IsRejected(e) ==
    \/ e = <<>>
    \/ IsNumber(e) /\ DecimalValue(e) = 0
    \/ e # <<>> /\ e[1] = "-"
    \/ \E i \in 1..Len(e) : e[i] \notin Digits \cup {":"}
    \/ ColonCount(e) > 1

\* C6: construction validates.  A Filter that construction yields has
\* every present bound >= 1 and lower <= upper when both are present; an
\* inverted range, "0", a negative number, the empty string, non-numeric
\* text and more than one colon all fail; a failure is an error value that
\* names the expression and holds no Filter.
C6_ConstructionValidates ==
    fpc \in {"parsed", "failed", "queried"} =>
        /\ parsed.ok =>
              LET f == parsed.filter
              IN  /\ f.lower # None => Le32(One32, f.lower)
                  /\ f.upper # None => Le32(One32, f.upper)
                  /\ (f.lower # None /\ f.upper # None) => Le32(f.lower, f.upper)
        /\ IsInverted(expr) => ~parsed.ok
        /\ IsRejected(expr) => ~parsed.ok
        /\ ~parsed.ok =>
              /\ fpc = "failed"
              /\ DOMAIN parsed = {"ok", "kind", "token"}
              /\ parsed.token = expr

\* The inverted range "3:2" was handed to from_str and failed.
C6_Witness ==
    /\ fpc = "failed"
    /\ expr = <<"3", ":", "2">>
    /\ parsed.kind = "RangeError"

\* C10: the positions passed to apply are never 0 and strictly increase
\* (line after line in the row selector, field after field of a line in
\* the column selector), also at the limit of the 32-bit counter.
C10_PositionsNeverWrap ==
    \A i \in 1..Len(queried) :
        /\ queried[i] # Zero32
        /\ i > 1 => Lt32(queried[i - 1], queried[i])

====
